---- MODULE Spec2Model ----
(***************************************************************************)
(* Model of src/main.py: the membership gate, the verified_users TTL cache *)
(* and the photo_handler / callback_query_handler coroutines.              *)
(*                                                                         *)
(* Handlers are asyncio coroutines on one event loop.  A coroutine runs    *)
(* without interruption from one await to the next, so every action below  *)
(* is one such segment: it resumes a handler at the await named by its pc, *)
(* with the outcome of the awaited call drawn by \E, and runs the code up  *)
(* to the next await (or to the handler's end).  The clock (time.time())   *)
(* advances between segments.                                              *)
(*                                                                         *)
(* Failure model: the collaborator calls of the error taxonomy may raise:  *)
(* get_chat_member, get_file, download_as_bytearray, the pipeline run in   *)
(* the executor, send_photo.  Text sends, edits and deletes complete.      *)
(*                                                                         *)
(* The pipeline runs in the executor's thread, apart from the event loop:  *)
(* WorkerFinish is the end of such a run, and a handler waiting for it     *)
(* resumes only afterwards.  In Spec and SpecVocabulary a run is known by  *)
(* its outcome only.  SpecResize is about the run itself: the bounding     *)
(* resize of enhance_image_bytes_sync, with Python's float arithmetic,     *)
(* applied to an opened image and then to its own output.                  *)
(***************************************************************************)
EXTENDS Integers, Sequences, FiniteSets, TLC

\* ------------------------------------------------------------ bounds
\* Handler invocations that may be in flight at once.
NumSlots == 2
\* Clock advances in one run.
MaxTicks == 2
\* Runs of the pipeline on one image: on the file, then on its own output.
MaxPasses == 2
\* How far above the long edge of line 105 the sizes about it go.
MaxOver == 125

Slots == 1..NumSlots
Users == {"u1", "u2"}

\* ---------------------------------------------------------- constants
\* Line 45 with a TTL of a day.
VERIFIED_TTL_DAY == 24 * 3600

VERIFIED_TTL == 12 * 3600

\* The clock moves by a whole TTL at a time: a lookup then falls before an
\* entry's expiry (no advance since the mark), exactly on it (one advance) or
\* after it (two).
TickSteps == {VERIFIED_TTL}

\* ------------------------------------------------------------ strings
\* A status string is a sequence of one-character strings, so that lower()
\* and the substring test of line 81 are computed, not assumed.
UpperChars == <<"A","B","C","D","E","F","G","H","I","J","K","L","M",
                "N","O","P","Q","R","S","T","U","V","W","X","Y","Z">>
LowerChars == <<"a","b","c","d","e","f","g","h","i","j","k","l","m",
                "n","o","p","q","r","s","t","u","v","w","x","y","z">>

LowerChar(c) ==
    IF \E i \in 1..Len(UpperChars) : UpperChars[i] = c
    THEN LowerChars[CHOOSE i \in 1..Len(UpperChars) : UpperChars[i] = c]
    ELSE c

\* A comparison that forgets lower().
LowerIdentity(s) == s

\* str.lower()
Lower(s) == [i \in 1..Len(s) |-> LowerChar(s[i])]

\* x in s, for strings
Contains(s, x) ==
    \E i \in 1..(Len(s) - Len(x) + 1) : SubSeq(s, i, i + Len(x) - 1) = x

ALLOWED_STATUS_STRINGS ==
    { <<"c","r","e","a","t","o","r">>,
      <<"o","w","n","e","r">>,
      <<"a","d","m","i","n","i","s","t","r","a","t","o","r">>,
      <<"a","d","m","i","n">>,
      <<"m","e","m","b","e","r">> }

\* The statuses the collaborator may report: the platform's six, "owner",
\* upper- and mixed-case spellings, and strings of another vocabulary that
\* contain, or nearly contain, an allowed word.
StatusVocabulary ==
    { <<"c","r","e","a","t","o","r">>,
      <<"o","w","n","e","r">>,
      <<"a","d","m","i","n","i","s","t","r","a","t","o","r">>,
      <<"m","e","m","b","e","r">>,
      <<"r","e","s","t","r","i","c","t","e","d">>,
      <<"l","e","f","t">>,
      <<"k","i","c","k","e","d">>,
      <<"M","e","m","b","e","r">>,
      <<"O","W","N","E","R">>,
      <<"L","e","f","t">>,
      <<"n","o","n","m","e","m","b","e","r">>,
      <<"m","e","m","b","r">> }

\* The two statuses the concurrent runs draw from: one that passes the gate
\* and one that does not.
SampleStatuses ==
    { <<"m","e","m","b","e","r">>, <<"l","e","f","t">> }

\* What awaiting get_chat_member yields: a member with a status of V, or an
\* exception.
NoResp == [raised |-> FALSE, status |-> << >>]
OracleResponses(V) ==
    { [raised |-> FALSE, status |-> s] : s \in V }
        \cup { [raised |-> TRUE, status |-> << >>] }

\* ------------------------------------------------ check_user_membership
\* A check that reports an exception of the oracle as an ordinary non-member.
MembershipResultConflated(resp) ==
    IF resp.raised
    THEN [ok |-> FALSE, reason |-> "not_member"]
    ELSE IF \E x \in ALLOWED_STATUS_STRINGS : Contains(Lower(resp.status), x)
         THEN [ok |-> TRUE, reason |-> "None"]
         ELSE [ok |-> FALSE, reason |-> "not_member"]

\* The (ok, reason) pair check_user_membership returns for an oracle response.
MembershipResult(resp) ==
    IF resp.raised
    THEN [ok |-> FALSE, reason |-> "error"]
    ELSE IF \E x \in ALLOWED_STATUS_STRINGS : Contains(Lower(resp.status), x)
         THEN [ok |-> TRUE, reason |-> "None"]
         ELSE [ok |-> FALSE, reason |-> "not_member"]

\* ------------------------------------------------------------- cache
EmptyCache == [u \in {} |-> 0]

\* del verified_users[user_id]; KeyError when the key is absent.
Del(cache, u) ==
    IF u \in DOMAIN cache
    THEN [raised |-> FALSE, cache |-> [x \in DOMAIN cache \ {u} |-> cache[x]]]
    ELSE [raised |-> TRUE, cache |-> cache]

\* A lookup that reports an expired entry and leaves it in the cache.
IsVerifiedNoEvict(cache, u, t) ==
    IF u \notin DOMAIN cache \/ cache[u] = 0
    THEN [ret |-> FALSE, cache |-> cache, raised |-> FALSE]
    ELSE IF t > cache[u]
         THEN [ret |-> FALSE, cache |-> cache, raised |-> FALSE]
         ELSE [ret |-> TRUE, cache |-> cache, raised |-> FALSE]

\* A lookup that, finding its user's entry expired, sweeps every expired
\* entry out of the cache.
IsVerifiedSweep(cache, u, t) ==
    IF u \notin DOMAIN cache \/ cache[u] = 0
    THEN [ret |-> FALSE, cache |-> cache, raised |-> FALSE]
    ELSE IF t > cache[u]
         THEN [ret |-> FALSE,
               cache |-> [x \in {y \in DOMAIN cache : ~(t > cache[y])} |-> cache[x]],
               raised |-> FALSE]
         ELSE [ret |-> TRUE, cache |-> cache, raised |-> FALSE]

\* A lookup that, on a hit, restarts the TTL of the entry it found.
IsVerifiedRefresh(cache, u, t) ==
    IF u \notin DOMAIN cache \/ cache[u] = 0
    THEN [ret |-> FALSE, cache |-> cache, raised |-> FALSE]
    ELSE IF t > cache[u]
         THEN [ret |-> FALSE, cache |-> Del(cache, u).cache,
               raised |-> Del(cache, u).raised]
         ELSE [ret |-> TRUE,
               cache |-> [cache EXCEPT ![u] = t + VERIFIED_TTL],
               raised |-> FALSE]

\* is_verified(user_id) at time t: the value returned, the cache it leaves
\* and whether it raised.
IsVerified(cache, u, t) ==
    IF u \notin DOMAIN cache \/ cache[u] = 0
    THEN [ret |-> FALSE, cache |-> cache, raised |-> FALSE]
    ELSE IF t > cache[u]
         THEN [ret |-> FALSE, cache |-> Del(cache, u).cache,
               raised |-> Del(cache, u).raised]
         ELSE [ret |-> TRUE, cache |-> cache, raised |-> FALSE]

\* Line 153 / 184 as a write that keeps an expiry already stored for the user.
MarkVerifiedKeep(cache, u, t) ==
    [x \in DOMAIN cache \cup {u} |->
        IF x = u /\ u \notin DOMAIN cache THEN t + VERIFIED_TTL ELSE cache[x]]

\* verified_users[user.id] = time.time() + VERIFIED_TTL
MarkVerified(cache, u, t) ==
    [x \in DOMAIN cache \cup {u} |-> IF x = u THEN t + VERIFIED_TTL ELSE cache[x]]

\* The entries in which the cache `new`, left by a segment run at time t,
\* differs from the cache `old` it found, as (user, change) pairs.  A removed
\* entry is "evicted" when its expiry was before t and "dropped" otherwise.
CacheDiff(old, new, t) ==
    { <<u, "added">>   : u \in DOMAIN new \ DOMAIN old } \cup
    { <<u, "evicted">> : u \in { x \in DOMAIN old \ DOMAIN new : old[x] < t } } \cup
    { <<u, "dropped">> : u \in { x \in DOMAIN old \ DOMAIN new : old[x] >= t } } \cup
    { <<u, "changed">> : u \in { x \in DOMAIN old \cap DOMAIN new : old[x] # new[x] } }

\* ------------------------------------------------------- the resize
\* enhance_image_bytes_sync scales with Python floats (IEEE 754 doubles):
\* scale = 2000 / max(im.size) is the quotient rounded to the nearest double,
\* im.width * scale is the product rounded to the nearest double, and int()
\* drops the fraction.  A double is kept here as a natural number `mant`,
\* written in bits with the least significant first, and a count `frac` of
\* the bits behind the binary point: its value is mant / 2^frac.

\* The long edge above which line 105 resizes, and the long edge it aims at.
LongEdge == 2000

\* The significant bits of a double.
DoubleBits == 53

Max(a, b) == IF a >= b THEN a ELSE b

\* The arithmetic below works on digits of DigitBits bits, so that no
\* intermediate number leaves the range of the model checker's integers; it
\* is exact for edges below 2^21.
DigitBits == 9

Radix == 2^DigitBits

RECURSIVE ValueOf(_)
\* The natural number written by `bits`.
ValueOf(bits) ==
    IF bits = << >> THEN 0 ELSE Head(bits) + 2 * ValueOf(Tail(bits))

\* `bits` without its leading zeros.
Trim(bits) ==
    LET ones == {i \in 1..Len(bits) : bits[i] = 1}
    IN  IF ones = {} THEN << >>
        ELSE SubSeq(bits, 1, CHOOSE i \in ones : \A j \in ones : j <= i)

\* The number `bits` in digits, least significant first.
DigitsOf(bits) ==
    [k \in 1..((Len(bits) + DigitBits - 1) \div DigitBits) |->
        ValueOf(SubSeq(bits, DigitBits * (k - 1) + 1,
                       IF DigitBits * k <= Len(bits) THEN DigitBits * k ELSE Len(bits)))]

\* The number `digits` in bits, least significant first.
BitsOf(digits) ==
    Trim([i \in 1..(DigitBits * Len(digits)) |->
            (digits[((i - 1) \div DigitBits) + 1] \div 2^((i - 1) % DigitBits)) % 2])

\* bits + 1
Increment(bits) ==
    LET zeros == {i \in 1..Len(bits) : bits[i] = 0}
    IN  IF zeros = {}
        THEN [i \in 1..(Len(bits) + 1) |-> IF i = Len(bits) + 1 THEN 1 ELSE 0]
        ELSE LET k == CHOOSE i \in zeros : \A j \in zeros : i <= j
             IN  [i \in 1..Len(bits) |->
                     IF i < k THEN 0 ELSE IF i = k THEN 1 ELSE bits[i]]

RECURSIVE TimesDigits(_, _, _, _)
\* The digits of digits * n + carry from the k-th digit on.
TimesDigits(digits, n, k, carry) ==
    IF k > Len(digits)
    THEN IF carry = 0 THEN << >>
         ELSE <<carry % Radix>> \o TimesDigits(digits, n, k, carry \div Radix)
    ELSE <<(n * digits[k] + carry) % Radix>>
             \o TimesDigits(digits, n, k + 1, (n * digits[k] + carry) \div Radix)

\* bits * n
Times(bits, n) == BitsOf(TimesDigits(DigitsOf(bits), n, 1, 0))

\* Round to nearest, ties to even: the natural number `bits` cut to the
\* DoubleBits leading bits, and the count of low bits that were cut off.
RoundToDouble(bits) ==
    LET d == Len(bits) - DoubleBits IN
        IF d <= 0
        THEN [mant |-> bits, cut |-> 0]
        ELSE LET kept == SubSeq(bits, d + 1, Len(bits))
                 up   == /\ bits[d] = 1
                         /\ (kept[1] = 1 \/ \E i \in 1..(d - 1) : bits[i] = 1)
             IN  [mant |-> IF up THEN Increment(kept) ELSE kept, cut |-> d]

RECURSIVE LeadingZeros(_, _)
\* The zeros between the binary point and the first 1 of a / b, for 0 < a < b.
LeadingZeros(a, b) == IF 2 * a >= b THEN 0 ELSE 1 + LeadingZeros(2 * a, b)

RECURSIVE QuotientDigits(_, _, _)
\* The next n digits of r / b behind the point, for r < b, by long division,
\* most significant first.
QuotientDigits(r, b, n) ==
    IF n = 0 THEN << >>
    ELSE <<(r * Radix) \div b>> \o QuotientDigits((r * Radix) % b, b, n - 1)

RECURSIVE QuotientRest(_, _, _)
\* The remainder the long division is left with after n digits.
QuotientRest(r, b, n) ==
    IF n = 0 THEN r ELSE QuotientRest((r * Radix) % b, b, n - 1)

\* a / b of two ints with 0 < a < b: the exact quotient rounded to a double.
\* The long division gives the bits from the first 1 on, one more than a
\* double holds; a last bit says whether anything is left behind them.
TrueDiv(a, b) ==
    LET z == LeadingZeros(a, b)
        n == (DoubleBits + DigitBits) \div DigitBits
        digits == QuotientDigits(a * 2^z, b, n)
        rest == QuotientRest(a * 2^z, b, n)
        behind == \/ rest # 0
                  \/ \E p \in (DoubleBits + 2)..(n * DigitBits) :
                        (digits[((p - 1) \div DigitBits) + 1]
                            \div 2^(DigitBits - 1 - ((p - 1) % DigitBits))) % 2 = 1
        bits == [j \in 1..(DoubleBits + 2) |->
                    IF j = 1 THEN IF behind THEN 1 ELSE 0
                    ELSE LET p == DoubleBits + 3 - j
                         IN  (digits[((p - 1) \div DigitBits) + 1]
                                 \div 2^(DigitBits - 1 - ((p - 1) % DigitBits))) % 2]
    IN  [mant |-> RoundToDouble(bits).mant, frac |-> z + DoubleBits]

\* n * f of an int n >= 1 (itself a double without loss) and a double f.
IntTimesFloat(n, f) ==
    LET r == RoundToDouble(Times(f.mant, n))
    IN  [mant |-> r.mant, frac |-> f.frac - r.cut]

\* int(f) of a double f >= 0.
IntOf(f) ==
    IF f.frac >= Len(f.mant) THEN 0
    ELSE ValueOf(SubSeq(f.mant, f.frac + 1, Len(f.mant)))

\* Line 106: scale = 2000 / max(im.size)
Scale(longest) == TrueDiv(LongEdge, longest)

\* Lines 107-108: int(im.width * scale), int(im.height * scale)
ScaledEdge(edge, scale) == IntOf(IntTimesFloat(edge, scale))

\* ------------------------------------------------------------- state
VARIABLES
    now,              \* time.time(), in seconds since the process started
    ticks,            \* clock advances so far
    verified_users,   \* the cache: user id -> expiry
    replicate_token,  \* whether REPLICATE_API_TOKEN is set
    handler,          \* per slot: the handler running in it
    pc,               \* per slot: the await a handler is suspended at, or its end
    user,             \* per slot: update.effective_user.id
    hit,              \* per slot: what is_verified returned at line 143
    ok,               \* per slot: ok of line 144 / 180
    reason,           \* per slot: reason of line 144 / 180 ("unset" before)
    resp,             \* per slot: the oracle's response, kept while the handler
                      \*   waits at the await that follows the check
    placeholder,      \* per slot: the progress message msg of line 159
    calls,            \* per slot: the awaits entered so far, in order
    delta,            \* per slot: the cache entries this invocation changed
    exc,              \* per slot: the exception that left the handler
    enhanced,         \* per slot: enhanced of line 163 ("unset" before)
    worker,           \* per slot: the executor's run of enhance_image_bytes_sync
                      \*   that line 124 awaits
    im                \* the image enhance_image_bytes_sync works on

vars == <<now, ticks, verified_users, replicate_token, handler, pc, user, hit, ok,
          reason, resp, placeholder, calls, delta, exc, enhanced, worker, im>>

locals == <<handler, pc, user, hit, ok, reason, resp, placeholder, calls, delta, exc,
            enhanced, worker>>

NoUser == "nobody"

PhotoTerminal == {"Rejected", "Failed", "Done", "Raised"}
Terminal == PhotoTerminal \cup {"CbDone"}
PipelineAwaits == {"enhance_first", "enhance_local"}

\* The pipeline run in the executor returns JPEG bytes, returns nothing, or raises.
PipelineOutcomes == {"bytes", "empty", "raise"}

\* No image is open: the handlers' pipeline runs are modelled by their outcome.
NoImage ==
    [input |-> <<0, 0>>, size |-> <<0, 0>>, asked |-> FALSE, target |-> <<0, 0>>,
     passes |-> 0, failed |-> FALSE]

\* The handlers' variables when the process starts.
InitHandlers ==
    /\ now = 0
    /\ ticks = 0
    /\ verified_users = EmptyCache
    /\ handler = [p \in Slots |-> "none"]
    /\ pc = [p \in Slots |-> "idle"]
    /\ user = [p \in Slots |-> NoUser]
    /\ hit = [p \in Slots |-> FALSE]
    /\ ok = [p \in Slots |-> FALSE]
    /\ reason = [p \in Slots |-> "unset"]
    /\ resp = [p \in Slots |-> NoResp]
    /\ placeholder = [p \in Slots |-> "none"]
    /\ calls = [p \in Slots |-> << >>]
    /\ delta = [p \in Slots |-> {}]
    /\ exc = [p \in Slots |-> "none"]
    /\ enhanced = [p \in Slots |-> "unset"]
    /\ worker = [p \in Slots |-> "none"]

Init ==
    /\ InitHandlers
    /\ replicate_token \in BOOLEAN
    /\ im = NoImage

\* The dispatcher hands a new update to the lowest free slot.
FreeSlot(p) ==
    /\ pc[p] = "idle"
    /\ \A q \in Slots : q < p => pc[q] # "idle"

\* Enter the await `a`: the handler is suspended there.
Goto(p, a) ==
    /\ pc' = [pc EXCEPT ![p] = a]
    /\ calls' = [calls EXCEPT ![p] = Append(@, a)]

\* An exception `e` leaves the handler.
Raise(p, e) ==
    /\ pc' = [pc EXCEPT ![p] = "Raised"]
    /\ exc' = [exc EXCEPT ![p] = e]
    /\ UNCHANGED calls

\* time.time() moves on between two segments.
Tick ==
    /\ ticks < MaxTicks
    /\ \E d \in TickSteps : now' = now + d
    /\ ticks' = ticks + 1
    /\ UNCHANGED <<verified_users, replicate_token, locals, im>>

\* ----------------------------------------------------- photo_handler
\* Line 147 when the gate lets everything through.
NextAfterCheckOpen(isOk) == "get_file"

\* Line 147: where photo_handler goes with the check's ok.
NextAfterCheck(isOk) == IF isOk THEN "get_file" ELSE "reply_join"

\* Lines 153 / 184 when the cache is written whatever the check said.
CacheAfterCheckAlways(cache, u, t, isOk) == MarkVerified(cache, u, t)

\* Lines 147-153 and 183-184 when a check that is not ok unverifies the user.
CacheAfterCheckUnverify(cache, u, t, isOk) ==
    IF isOk THEN MarkVerified(cache, u, t)
    ELSE [x \in DOMAIN cache \ {u} |-> cache[x]]

\* Lines 147-153 and 183-184: the cache is written only when ok.
CacheAfterCheck(cache, u, t, isOk) ==
    IF isOk THEN MarkVerified(cache, u, t) ELSE cache

\* Lines 140-146 (cache miss) or 140-143, 155-156 (cache hit).
PhotoStart(p, u) ==
    /\ FreeSlot(p)
    /\ handler' = [handler EXCEPT ![p] = "photo"]
    /\ LET v == IsVerified(verified_users, u, now) IN
        /\ verified_users' = v.cache
        /\ user' = [user EXCEPT ![p] = u]
        /\ hit' = [hit EXCEPT ![p] = v.ret]
        /\ delta' = [delta EXCEPT ![p] = CacheDiff(verified_users, v.cache, now)]
        /\ IF v.raised
           THEN Raise(p, "KeyError")
           ELSE /\ Goto(p, IF v.ret THEN "get_file" ELSE "get_chat_member")
                /\ UNCHANGED exc
    /\ UNCHANGED <<enhanced, worker>>
    /\ UNCHANGED <<now, ticks, im, replicate_token, ok, reason, resp, placeholder>>

\* Lines 77-86 and 144-153: get_chat_member resumes, the status is mapped,
\* and photo_handler either rejects or marks the user and goes to fetch.
PhotoMembership(p, V) ==
    /\ pc[p] = "get_chat_member"
    /\ \E r \in OracleResponses(V) :
        LET m == MembershipResult(r)
            c == CacheAfterCheck(verified_users, user[p], now, m.ok)
        IN  /\ resp' = [resp EXCEPT ![p] = r]
            /\ ok' = [ok EXCEPT ![p] = m.ok]
            /\ reason' = [reason EXCEPT ![p] = m.reason]
            /\ verified_users' = c
            /\ delta' = [delta EXCEPT ![p] = @ \cup CacheDiff(verified_users, c, now)]
            /\ Goto(p, NextAfterCheck(m.ok))
    /\ UNCHANGED <<enhanced, worker>>
    /\ UNCHANGED <<now, ticks, im, replicate_token, handler, user, hit, placeholder,
                   exc>>

\* Lines 148-152: the join prompt is sent and the handler returns.
PhotoRejected(p) ==
    /\ pc[p] = "reply_join"
    /\ pc' = [pc EXCEPT ![p] = "Rejected"]
    /\ resp' = [resp EXCEPT ![p] = NoResp]
    /\ UNCHANGED <<enhanced, worker>>
    /\ UNCHANGED <<now, ticks, im, verified_users, replicate_token, handler,
                   user, hit, ok, reason, placeholder, calls, delta, exc>>

\* Lines 156-157: get_file resumes; download_as_bytearray is awaited.
PhotoGetFile(p) ==
    /\ pc[p] = "get_file"
    /\ resp' = [resp EXCEPT ![p] = NoResp]
    /\ \/ Goto(p, "download") /\ UNCHANGED exc
       \/ Raise(p, "DownloadError")
    /\ UNCHANGED <<enhanced, worker>>
    /\ UNCHANGED <<now, ticks, im, verified_users, replicate_token, handler,
                   user, hit, ok, reason, placeholder, delta>>

\* Lines 157-161: the bytes arrive; the placeholder is sent.
PhotoDownload(p) ==
    /\ pc[p] = "download"
    /\ \/ Goto(p, "reply_wait") /\ UNCHANGED exc
       \/ Raise(p, "DownloadError")
    /\ UNCHANGED <<enhanced, worker>>
    /\ UNCHANGED <<now, ticks, im, verified_users, replicate_token, handler,
                   user, hit, ok, reason, resp, placeholder, delta>>

\* Line 128 when the token is never looked at.
EnhanceEntryLocalOnly(token) == "enhance_local"

\* Line 128: with the token set, a first attempt precedes the local run.
EnhanceEntry(token) == IF token THEN "enhance_first" ELSE "enhance_local"

\* Line 124 when the await returns although the executor's run is not over.
FutureDoneEarly(w) == w # "none"

\* Line 124: the await of run_in_executor returns once the run is over.
FutureDone(w) == w = "finished"

\* Line 164 when whatever the pipeline returned is sent.
AfterEnhanceAlwaysSend(e) == "send_photo"

\* Lines 164-168: `if not enhanced` edits the placeholder and returns;
\* otherwise the bytes go to send_photo.
AfterEnhance(e) == IF e = "bytes" THEN "send_photo" ELSE "edit_failed"

\* Lines 159-163, 127-130 / 135, 122-124: the placeholder exists; the
\* pipeline is handed to the executor.
PhotoPlaceholder(p) ==
    /\ pc[p] = "reply_wait"
    /\ placeholder' = [placeholder EXCEPT ![p] = "enhancing"]
    /\ worker' = [worker EXCEPT ![p] = "running"]
    /\ Goto(p, EnhanceEntry(replicate_token))
    /\ UNCHANGED enhanced
    /\ UNCHANGED <<now, ticks, im, verified_users, replicate_token, handler,
                   user, hit, ok, reason, resp, delta, exc>>

\* Lines 129-135: the first attempt ends.  Bytes are returned to line 163
\* and sent; an empty result or an exception starts the local run.
PhotoEnhanceFirst(p) ==
    /\ pc[p] = "enhance_first"
    /\ FutureDone(worker[p])
    /\ \E o \in PipelineOutcomes :
        IF o = "bytes"
        THEN /\ enhanced' = [enhanced EXCEPT ![p] = o]
             /\ worker' = [worker EXCEPT ![p] = "none"]
             /\ Goto(p, AfterEnhance(o))
        ELSE /\ worker' = [worker EXCEPT ![p] = "running"]
             /\ Goto(p, "enhance_local")
             /\ UNCHANGED enhanced
    /\ UNCHANGED <<now, ticks, im, verified_users, replicate_token, handler,
                   user, hit, ok, reason, resp, placeholder, delta, exc>>

\* Lines 135, 163-168: the local run ends.
PhotoEnhanceLocal(p) ==
    /\ pc[p] = "enhance_local"
    /\ FutureDone(worker[p])
    /\ worker' = [worker EXCEPT ![p] = "none"]
    /\ \/ \E o \in PipelineOutcomes \ {"raise"} :
             /\ enhanced' = [enhanced EXCEPT ![p] = o]
             /\ Goto(p, AfterEnhance(o))
             /\ UNCHANGED exc
       \/ Raise(p, "PipelineError") /\ UNCHANGED enhanced
    /\ UNCHANGED <<now, ticks, im, verified_users, replicate_token, handler,
                   user, hit, ok, reason, resp, placeholder, delta>>

\* Lines 100-119, in the executor's thread: the run of
\* enhance_image_bytes_sync started for the handler in slot p comes to its end.
WorkerFinish(p) ==
    /\ worker[p] = "running"
    /\ worker' = [worker EXCEPT ![p] = "finished"]
    /\ UNCHANGED <<now, ticks, im, verified_users, replicate_token, handler, pc,
                   user, hit, ok, reason, resp, placeholder, calls, delta, exc,
                   enhanced>>

\* Lines 165-166: the placeholder is edited to the failure text.
PhotoEditFailed(p) ==
    /\ pc[p] = "edit_failed"
    /\ placeholder' = [placeholder EXCEPT ![p] = "failed"]
    /\ pc' = [pc EXCEPT ![p] = "Failed"]
    /\ UNCHANGED <<enhanced, worker>>
    /\ UNCHANGED <<now, ticks, im, verified_users, replicate_token, handler,
                   user, hit, ok, reason, resp, calls, delta, exc>>

\* Lines 168-173: send_photo resumes; the placeholder's delete is awaited.
PhotoSend(p) ==
    /\ pc[p] = "send_photo"
    /\ \/ Goto(p, "delete") /\ UNCHANGED exc
       \/ Raise(p, "DeliveryError")
    /\ UNCHANGED <<enhanced, worker>>
    /\ UNCHANGED <<now, ticks, im, verified_users, replicate_token, handler,
                   user, hit, ok, reason, resp, placeholder, delta>>

\* Line 173: the placeholder is deleted and the handler ends.
PhotoDelete(p) ==
    /\ pc[p] = "delete"
    /\ placeholder' = [placeholder EXCEPT ![p] = "deleted"]
    /\ pc' = [pc EXCEPT ![p] = "Done"]
    /\ UNCHANGED <<enhanced, worker>>
    /\ UNCHANGED <<now, ticks, im, verified_users, replicate_token, handler,
                   user, hit, ok, reason, resp, calls, delta, exc>>

\* -------------------------------------------- callback_query_handler
\* Lines 177-178: query.answer() is awaited.
CallbackStart(p, u) ==
    /\ FreeSlot(p)
    /\ handler' = [handler EXCEPT ![p] = "callback"]
    /\ user' = [user EXCEPT ![p] = u]
    /\ Goto(p, "cb_answer")
    /\ UNCHANGED <<enhanced, worker>>
    /\ UNCHANGED <<now, ticks, im, verified_users, replicate_token, hit, ok,
                   reason, resp, placeholder, delta, exc>>

\* Lines 178-182, 77-79: the answer is sent; get_chat_member is awaited.
CallbackAnswer(p) ==
    /\ pc[p] = "cb_answer"
    /\ Goto(p, "cb_get_chat_member")
    /\ UNCHANGED <<enhanced, worker>>
    /\ UNCHANGED <<now, ticks, im, verified_users, replicate_token, handler,
                   user, hit, ok, reason, resp, placeholder, delta, exc>>

\* Lines 79-86, 180-191: the status is mapped; on ok the user is marked.
CallbackMembership(p, V) ==
    /\ pc[p] = "cb_get_chat_member"
    /\ \E r \in OracleResponses(V) :
        LET m == MembershipResult(r)
            c == CacheAfterCheck(verified_users, user[p], now, m.ok)
        IN  /\ resp' = [resp EXCEPT ![p] = r]
            /\ ok' = [ok EXCEPT ![p] = m.ok]
            /\ reason' = [reason EXCEPT ![p] = m.reason]
            /\ verified_users' = c
            /\ delta' = [delta EXCEPT ![p] = @ \cup CacheDiff(verified_users, c, now)]
            /\ Goto(p, IF m.ok THEN "cb_edit_ok" ELSE "cb_edit_no")
    /\ UNCHANGED <<enhanced, worker>>
    /\ UNCHANGED <<now, ticks, im, replicate_token, handler, user, hit, placeholder,
                   exc>>

\* Lines 185-191: the message is edited and the handler ends.
CallbackEdit(p) ==
    /\ pc[p] \in {"cb_edit_ok", "cb_edit_no"}
    /\ pc' = [pc EXCEPT ![p] = "CbDone"]
    /\ resp' = [resp EXCEPT ![p] = NoResp]
    /\ UNCHANGED <<enhanced, worker>>
    /\ UNCHANGED <<now, ticks, im, verified_users, replicate_token, handler,
                   user, hit, ok, reason, placeholder, calls, delta, exc>>

\* The handler's coroutine is gone: its slot takes the next update.
Return(p) ==
    /\ pc[p] \in Terminal
    /\ handler' = [handler EXCEPT ![p] = "none"]
    /\ pc' = [pc EXCEPT ![p] = "idle"]
    /\ user' = [user EXCEPT ![p] = NoUser]
    /\ hit' = [hit EXCEPT ![p] = FALSE]
    /\ ok' = [ok EXCEPT ![p] = FALSE]
    /\ reason' = [reason EXCEPT ![p] = "unset"]
    /\ resp' = [resp EXCEPT ![p] = NoResp]
    /\ placeholder' = [placeholder EXCEPT ![p] = "none"]
    /\ calls' = [calls EXCEPT ![p] = << >>]
    /\ delta' = [delta EXCEPT ![p] = {}]
    /\ exc' = [exc EXCEPT ![p] = "none"]
    /\ enhanced' = [enhanced EXCEPT ![p] = "unset"]
    /\ worker' = [worker EXCEPT ![p] = "none"]
    /\ UNCHANGED <<now, ticks, im, verified_users, replicate_token>>

\* No handler is running.
AllIdle == \A q \in Slots : pc[q] = "idle"

\* What the handlers do once dispatched, with the oracle's statuses drawn from V.
Segments(V) ==
    \/ \E p \in Slots : PhotoMembership(p, V)
    \/ \E p \in Slots : PhotoRejected(p)
    \/ \E p \in Slots : PhotoGetFile(p)
    \/ \E p \in Slots : PhotoDownload(p)
    \/ \E p \in Slots : PhotoPlaceholder(p)
    \/ \E p \in Slots : WorkerFinish(p)
    \/ \E p \in Slots : PhotoEnhanceFirst(p)
    \/ \E p \in Slots : PhotoEnhanceLocal(p)
    \/ \E p \in Slots : PhotoEditFailed(p)
    \/ \E p \in Slots : PhotoSend(p)
    \/ \E p \in Slots : PhotoDelete(p)
    \/ \E p \in Slots : CallbackAnswer(p)
    \/ \E p \in Slots : CallbackMembership(p, V)
    \/ \E p \in Slots : CallbackEdit(p)
    \/ \E p \in Slots : Return(p)

\* Concurrent handlers: an update is dispatched whenever a slot is free.
Next ==
    \/ Tick
    \/ \E p \in Slots, u \in Users : PhotoStart(p, u)
    \/ \E p \in Slots, u \in Users : CallbackStart(p, u)
    \/ Segments(SampleStatuses)

Spec == Init /\ [][Next]_vars

\* One handler at a time, the oracle answering with any status of the
\* vocabulary.
NextVocabulary ==
    \/ Tick
    \/ \E p \in Slots, u \in Users : AllIdle /\ PhotoStart(p, u)
    \/ \E p \in Slots, u \in Users : AllIdle /\ CallbackStart(p, u)
    \/ Segments(StatusVocabulary)

SpecVocabulary == Init /\ [][NextVocabulary]_vars

\* ------------------------------------------ enhance_image_bytes_sync
\* Widths and heights of the images opened: small ones, ones about the long
\* edge of line 105, and large ones.
EdgeSamples == {1, 2, 531, 1500, LongEdge, 3000, 4000}

NearLongEdge == (LongEdge - 2)..(LongEdge + MaxOver)

Edges == EdgeSamples \cup NearLongEdge

\* Line 105 with the resize starting 500 pixels later.
NeedsResizeLate(size) == Max(size[1], size[2]) > LongEdge + 500

\* Line 105: max(im.size) > 2000
NeedsResize(size) == Max(size[1], size[2]) > LongEdge

\* Lines 106-108: the size asked of im.resize.
TargetSize(size) ==
    LET scale == Scale(Max(size[1], size[2]))
    IN  <<ScaledEdge(size[1], scale), ScaledEdge(size[2], scale)>>

\* The image Image.open gives for a file of w x h pixels.
Opened(w, h) ==
    [input |-> <<w, h>>, size |-> <<w, h>>, asked |-> FALSE, target |-> <<0, 0>>,
     passes |-> 0, failed |-> FALSE]

\* Lines 100-119: one run of the pipeline on the image.  The filters and the
\* JPEG encoder keep the size; im.resize raises when asked for a width or a
\* height below 1, and the run ends with that exception.
EnhanceImageBytesSync ==
    /\ im # NoImage
    /\ ~im.failed
    /\ im.passes < MaxPasses
    /\ IF NeedsResize(im.size)
       THEN LET target == TargetSize(im.size)
                raises == target[1] < 1 \/ target[2] < 1
            IN  im' = [im EXCEPT !.asked = TRUE,
                                 !.target = target,
                                 !.size = IF raises THEN @ ELSE target,
                                 !.passes = @ + 1,
                                 !.failed = raises]
       ELSE im' = [im EXCEPT !.asked = FALSE,
                             !.target = <<0, 0>>,
                             !.passes = @ + 1]
    /\ UNCHANGED <<now, ticks, verified_users, replicate_token, locals>>

\* An image file is opened and the pipeline is run on it, then on its output.
\* The files are the squares and, upright and lying, the sizes with one edge
\* out of the samples.
InitResize ==
    /\ InitHandlers
    /\ replicate_token = FALSE
    /\ \E a \in Edges :
          \E b \in EdgeSamples \cup {a} :
              im \in {Opened(a, b), Opened(b, a)}

NextResize == EnhanceImageBytesSync

SpecResize == InitResize /\ [][NextResize]_vars

\* ============================================================ claims

\* The awaits behind the gate: the download, the pipeline, the delivery.
PostGate ==
    {"get_file", "download", "reply_wait", "enhance_first", "enhance_local",
     "edit_failed", "send_photo", "delete"}

Entered(p, A) == \E i \in 1..Len(calls[p]) : calls[p][i] \in A

CountOf(p, A) == Cardinality({ i \in 1..Len(calls[p]) : calls[p][i] \in A })

\* The segment just taken is the lookup of line 143 by the handler in slot p.
LookupStep(p) == handler[p] = "none" /\ handler'[p] = "photo"

\* ---- C1
\* C1: gate safety.  A submission has entered the download, the pipeline or
\* send_photo only if is_verified returned true at its start or its own
\* membership check returned ok; after a not_member or error result the
\* submission is at the join prompt or Rejected and has entered none of them.
C1_GateSafety ==
    \A p \in Slots :
        handler[p] = "photo" =>
            /\ (Entered(p, PostGate) \/ pc[p] \in {"Failed", "Done"})
                   => (hit[p] \/ (ok[p] /\ reason[p] = "None"))
            /\ reason[p] \in {"not_member", "error"}
                   => /\ pc[p] \in {"reply_join", "Rejected"}
                      /\ ~Entered(p, PostGate)
                      /\ ~hit[p] /\ ~ok[p]

\* One submission is Done after a check that verified it while another has
\* been Rejected.
C1_Witness ==
    \E p, q \in Slots :
        /\ handler[p] = "photo" /\ pc[p] = "Done" /\ ~hit[p] /\ ok[p]
        /\ handler[q] = "photo" /\ pc[q] = "Rejected"

\* ---- C2
\* C2: is_verified(u) returns true iff the cache holds an entry for u whose
\* expiry is strictly after the current time (an entry expiring exactly now is
\* not verified).  Stated of every lookup of line 143.
C2_StrictExpiry ==
    [][ \A p \in Slots :
            LookupStep(p) =>
                (hit'[p] <=> ( /\ user'[p] \in DOMAIN verified_users
                               /\ verified_users[user'[p]] > now )) ]_vars

\* ---- C3
\* C3: right after u is marked (expiry = now + ttl) a lookup of u is true;
\* once the clock has moved on by ttl or more since the mark, with no new
\* mark, a lookup of u is false, and no lookup raises.
C3_TtlElapsed ==
    [][ \A p \in Slots :
            LookupStep(p) =>
                /\ exc'[p] # "KeyError"
                /\ user'[p] \in DOMAIN verified_users =>
                    LET marked == verified_users[user'[p]] - VERIFIED_TTL IN
                        /\ now = marked => hit'[p]
                        /\ now - marked >= VERIFIED_TTL => ~hit'[p] ]_vars

\* ---- C4
\* C4: no failure of a photo submission leaves photo_handler as an exception;
\* every submission that ends ends Rejected, Failed or Done.
C4_NothingPropagates ==
    \A p \in Slots :
        handler[p] = "photo" => (pc[p] # "Raised" /\ exc[p] = "none")

\* ---- C5
\* C5: no submission ends with its placeholder still showing the 'Enhancing'
\* text.
C5_PlaceholderResolved ==
    \A p \in Slots :
        (handler[p] = "photo" /\ pc[p] \in PhotoTerminal)
            => placeholder[p] # "enhancing"

\* ---- C6
\* C6 as stated: a submission that ends Rejected went through the check and
\* the join prompt only, and changed no cache entry at all.
C6_RejectedLeavesCacheIdentical ==
    \A p \in Slots :
        (handler[p] = "photo" /\ pc[p] = "Rejected") =>
            /\ calls[p] = <<"get_chat_member", "reply_join">>
            /\ delta[p] = {}

\* C6 as amended: a submission that ends Rejected went through the check and
\* the join prompt only; it added and changed no cache entry, and removed
\* none but its own user's entry, and that only when the entry had expired.
C6_RejectedOnlyEvicts ==
    \A p \in Slots :
        (handler[p] = "photo" /\ pc[p] = "Rejected") =>
            /\ calls[p] = <<"get_chat_member", "reply_join">>
            /\ ~hit[p] /\ ~ok[p]
            /\ delta[p] \subseteq {<<user[p], "evicted">>}

\* A Rejected submission whose lookup evicted its user's expired entry.
C6_Witness ==
    \E p \in Slots :
        /\ handler[p] = "photo" /\ pc[p] = "Rejected"
        /\ delta[p] = {<<user[p], "evicted">>}

\* ---- C7
\* C7: an exception of get_chat_member comes back from check_user_membership
\* as (False, "error"), which is not the (False, "not_member") of a status
\* outside the allow-set; it never leaves either handler as an exception, and
\* a handler whose check did not return ok has not written the cache.
C7_CheckFailedIsSoft ==
    \A p \in Slots :
        /\ resp[p].raised => (~ok[p] /\ reason[p] = "error")
        /\ (resp[p] # NoResp /\ ~resp[p].raised) => reason[p] # "error"
        /\ reason[p] = "error"
              => /\ pc[p] \in {"reply_join", "Rejected", "cb_edit_no", "CbDone"}
                 /\ exc[p] = "none"
        /\ reason[p] \in {"error", "not_member"}
              => \A d \in delta[p] : d[2] \notin {"added", "changed"}

\* The oracle has just raised in a photo_handler and in a
\* callback_query_handler.
C7_Witness ==
    \E p, q \in Slots :
        /\ handler[p] = "photo" /\ resp[p].raised /\ pc[p] = "reply_join"
        /\ handler[q] = "callback" /\ resp[q].raised /\ pc[q] = "cb_edit_no"

\* ---- C8
\* The statuses of the vocabulary that the claim maps to Verified, written
\* out: the four named ones, their other spellings, and the one that has an
\* allow-set word inside it.
C8_VerifiedStatuses ==
    { <<"c","r","e","a","t","o","r">>,
      <<"o","w","n","e","r">>,
      <<"a","d","m","i","n","i","s","t","r","a","t","o","r">>,
      <<"m","e","m","b","e","r">>,
      <<"M","e","m","b","e","r">>,
      <<"O","W","N","E","R">>,
      <<"n","o","n","m","e","m","b","e","r">> }

\* C8: a status the oracle returned is mapped to ok exactly when it is
\* administrator, member, creator or owner in any letter case, or has an
\* allow-set word inside it; left, kicked, restricted and the other statuses
\* of the vocabulary are mapped to not_member.
C8_StatusMapping ==
    \A p \in Slots :
        (resp[p] # NoResp /\ ~resp[p].raised) =>
            /\ ok[p] <=> resp[p].status \in C8_VerifiedStatuses
            /\ ok[p] => reason[p] = "None"
            /\ ~ok[p] => reason[p] = "not_member"

\* The oracle has answered "Member", capitalised, and the check returned ok.
C8_Witness ==
    \E p \in Slots :
        /\ resp[p].status = <<"M","e","m","b","e","r">>
        /\ ok[p]
        /\ pc[p] \in {"get_file", "cb_edit_ok"}

\* ---- C9
\* C9: in one submission get_chat_member is awaited at most once and the
\* pipeline is handed to the executor at most once.
C9_NoRetry ==
    \A p \in Slots :
        handler[p] = "photo" =>
            /\ CountOf(p, {"get_chat_member"}) <= 1
            /\ CountOf(p, PipelineAwaits) <= 1

\* ---- C10
\* C10: under every interleaving of the handlers' segments, a lookup never
\* raises KeyError, what a lookup returns agrees with the cache it leaves
\* (true: the entry is there; false: no entry is there), and an entry leaves
\* the cache only when its expiry is already past, so never one that a
\* concurrent check has just written.
C10_LookupEvictAtomic ==
    [][ /\ \A p \in Slots : exc'[p] # "KeyError"
        /\ \A p \in Slots :
              LookupStep(p) => (hit'[p] <=> user'[p] \in DOMAIN verified_users')
        /\ \A u \in DOMAIN verified_users :
              u \notin DOMAIN verified_users' => now > verified_users[u] ]_vars

\* Two handlers for the same user are in flight: one evicted the user's
\* expired entry at its lookup, the other has since marked the user verified.
C10_Witness ==
    \E p, q \in Slots :
        /\ p # q /\ user[p] = user[q]
        /\ pc[p] \notin Terminal /\ pc[q] \notin Terminal
        /\ <<user[p], "evicted">> \in delta[p]
        /\ <<user[q], "added">> \in delta[q]

\* The segment just taken is the one in which the handler in slot p got the
\* result of its membership check (line 144 or line 180).
CheckStep(p) ==
    /\ pc[p] \in {"get_chat_member", "cb_get_chat_member"}
    /\ pc'[p] # pc[p]

\* ---- C11
\* C11: there is no unverify path.  An entry leaves the cache only in the
\* lookup of line 143 made for its own user, and only when its expiry is
\* past; an entry that stays never gets an earlier expiry; and a membership
\* check that comes back not_member or error, in photo_handler or in the
\* callback, leaves the whole cache as it found it, so an unexpired entry of
\* the checked user is still there.
C11_NoUnverify ==
    [][ /\ \A u \in DOMAIN verified_users :
              /\ u \notin DOMAIN verified_users' =>
                     /\ now > verified_users[u]
                     /\ \E p \in Slots : LookupStep(p) /\ user'[p] = u
              /\ u \in DOMAIN verified_users' =>
                     verified_users'[u] >= verified_users[u]
        /\ \A p \in Slots :
              (CheckStep(p) /\ reason'[p] \in {"not_member", "error"}) =>
                  verified_users' = verified_users ]_vars

\* A callback's check has come back not ok, and a photo_handler's check has
\* come back not ok, each for a user whose entry is in the cache, not expired.
C11_Witness ==
    \E p, q \in Slots :
        /\ handler[p] = "callback" /\ pc[p] = "cb_edit_no"
        /\ handler[q] = "photo" /\ pc[q] = "reply_join"
        /\ \A r \in {p, q} :
              /\ user[r] \in DOMAIN verified_users
              /\ verified_users[user[r]] > now

\* ---- C13
\* C13: marking is last-write-wins.  Whenever a check comes back ok, the
\* entry of the checked user is, right after that segment, exactly the time
\* of the segment plus VERIFIED_TTL, whatever expiry was stored for the user
\* before.  (The handlers always write with the one VERIFIED_TTL and the
\* clock of the model does not run backwards, so the later write is never
\* the smaller one.)
C13_LastWriteWins ==
    [][ \A p \in Slots :
            (CheckStep(p) /\ ok'[p]) =>
                /\ user[p] \in DOMAIN verified_users'
                /\ verified_users'[user[p]] = now + VERIFIED_TTL ]_vars

\* A check has just overwritten an expiry that was stored for its user with
\* a different one.
C13_Witness ==
    \E p \in Slots :
        /\ pc[p] \in {"get_file", "cb_edit_ok"}
        /\ ok[p]
        /\ <<user[p], "changed">> \in delta[p]
        /\ verified_users[user[p]] = now + VERIFIED_TTL

\* ---- C14
\* C14: the lookup is_verified(u) either leaves the cache as it is or removes
\* the entry of u, and that only when the entry's expiry is past; an entry of
\* u that has not expired and every entry of another user are as they were;
\* and an entry is removed by no segment other than a lookup of its own user
\* (a clock advance, a check, a later segment of a handler remove nothing).
C14_LookupFrame ==
    [][ /\ \A p \in Slots :
              LookupStep(p) =>
                  LET u == user'[p] IN
                      /\ \A x \in DOMAIN verified_users \ {u} :
                            /\ x \in DOMAIN verified_users'
                            /\ verified_users'[x] = verified_users[x]
                      /\ DOMAIN verified_users' \subseteq DOMAIN verified_users
                      /\ u \in DOMAIN verified_users =>
                            IF now > verified_users[u]
                            THEN u \notin DOMAIN verified_users'
                            ELSE /\ u \in DOMAIN verified_users'
                                 /\ verified_users'[u] = verified_users[u]
        /\ \A u \in DOMAIN verified_users :
              u \notin DOMAIN verified_users' =>
                  \E p \in Slots : LookupStep(p) /\ user'[p] = u ]_vars

\* A lookup has removed its user's expired entry while the expired entry of
\* another user is still in the cache.
C14_Witness ==
    \E p \in Slots :
        /\ handler[p] = "photo" /\ pc[p] = "get_chat_member"
        /\ delta[p] = {<<user[p], "evicted">>}
        /\ \E x \in DOMAIN verified_users : x # user[p] /\ now > verified_users[x]

\* ---- C18
\* C18: the cache starts empty, and an entry appears in it or gets another
\* expiry only in the segment in which a handler (photo_handler or the
\* callback) for that very user got from the oracle a status that verifies;
\* the expiry written is the time of that segment plus 43200 seconds.  So in
\* every reachable state each entry was written that way.
C18_EntriesFromVerifiedChecks ==
    /\ verified_users = EmptyCache
    /\ [][ \A u \in DOMAIN verified_users' :
               (u \notin DOMAIN verified_users
                    \/ verified_users'[u] # verified_users[u]) =>
                   /\ verified_users'[u] = now + 43200
                   /\ \E p \in Slots :
                         /\ CheckStep(p)
                         /\ user[p] = u
                         /\ ok'[p]
                         /\ ~resp'[p].raised
                         /\ resp'[p].status \in C8_VerifiedStatuses ]_vars

\* The cache holds two entries with different expiries, one written by a
\* photo_handler and one by a callback, both still running.
C18_Witness ==
    \E p, q \in Slots :
        /\ handler[p] = "photo" /\ <<user[p], "added">> \in delta[p]
        /\ handler[q] = "callback" /\ <<user[q], "added">> \in delta[q]
        /\ user[p] # user[q]
        /\ DOMAIN verified_users = {user[p], user[q]}
        /\ verified_users[user[p]] # verified_users[user[q]]

\* ---- C19
\* C19: a submission whose lookup at line 143 returned true never awaits
\* get_chat_member, has no check result, and changes no cache entry from its
\* first segment to its last: the expiry of its user is not extended by use.
C19_HitIsReadOnly ==
    \A p \in Slots :
        (handler[p] = "photo" /\ hit[p]) =>
            /\ ~Entered(p, {"get_chat_member"})
            /\ reason[p] = "unset" /\ ~ok[p]
            /\ delta[p] = {}

\* A submission admitted by the cache after the clock had moved on since its
\* user was marked is Done, and the entry still has the expiry of that mark.
C19_Witness ==
    \E p \in Slots :
        /\ handler[p] = "photo" /\ hit[p] /\ pc[p] = "Done"
        /\ user[p] \in DOMAIN verified_users
        /\ now > verified_users[user[p]] - VERIFIED_TTL
        /\ \A q \in Slots : q # p => handler[q] = "none"

\* The stage of a submission that an await belongs to: 1 the gate check,
\* 2 the download, 3 the enhancement, 4 the delivery.
StageOf(a) ==
    CASE a \in {"get_chat_member", "reply_join"} -> 1
      [] a \in {"get_file", "download"} -> 2
      [] a \in {"reply_wait", "enhance_first", "enhance_local", "edit_failed"} -> 3
      [] a \in {"send_photo", "delete"} -> 4

\* ---- C15
\* C15: within one submission the awaits are entered in the order gate check,
\* download, enhancement, delivery, no stage being skipped on the way to
\* send_photo; send_photo is entered at most once, and only when the pipeline
\* has returned non-empty bytes to line 163; after that the submission is at
\* send_photo, at the placeholder's delete, Done, or was left by send_photo's
\* exception; the placeholder is deleted only after the photo was sent, and a
\* submission that is Done has its placeholder deleted, send_photo and the
\* delete being its last two awaits.
C15_NoFailedOutputDelivered ==
    \A p \in Slots :
        handler[p] = "photo" =>
            /\ \A i, j \in 1..Len(calls[p]) :
                  i < j => StageOf(calls[p][i]) <= StageOf(calls[p][j])
            /\ CountOf(p, {"send_photo"}) <= 1
            /\ Entered(p, {"send_photo"}) =>
                  /\ enhanced[p] = "bytes"
                  /\ Entered(p, PipelineAwaits)
                  /\ Entered(p, {"get_file"}) /\ Entered(p, {"download"})
                  /\ hit[p] \/ (Entered(p, {"get_chat_member"}) /\ ok[p])
                  /\ worker[p] = "none"
                  /\ pc[p] \in {"send_photo", "delete", "Done", "Raised"}
                  /\ pc[p] = "Raised" => exc[p] = "DeliveryError"
            /\ enhanced[p] = "bytes" => Entered(p, {"send_photo"})
            /\ placeholder[p] = "deleted" => Entered(p, {"send_photo"})
            /\ pc[p] = "Done" =>
                  /\ placeholder[p] = "deleted"
                  /\ Len(calls[p]) >= 2
                  /\ SubSeq(calls[p], Len(calls[p]) - 1, Len(calls[p]))
                         = <<"send_photo", "delete">>

\* One submission went through the check, the first attempt and the local
\* run and is Done; another got nothing from the pipeline and is Failed.
C15_Witness ==
    \E p, q \in Slots :
        /\ handler[p] = "photo" /\ pc[p] = "Done"
        /\ calls[p] = <<"get_chat_member", "get_file", "download", "reply_wait",
                        "enhance_first", "enhance_local", "send_photo", "delete">>
        /\ handler[q] = "photo" /\ pc[q] = "Failed" /\ enhanced[q] = "empty"

\* The next segment of the handler in slot q, or the end of its worker's run.
SlotStep(q) ==
    \/ PhotoMembership(q, SampleStatuses)
    \/ PhotoRejected(q)
    \/ PhotoGetFile(q)
    \/ PhotoDownload(q)
    \/ PhotoPlaceholder(q)
    \/ WorkerFinish(q)
    \/ PhotoEnhanceFirst(q)
    \/ PhotoEnhanceLocal(q)
    \/ PhotoEditFailed(q)
    \/ PhotoSend(q)
    \/ PhotoDelete(q)
    \/ CallbackAnswer(q)
    \/ CallbackMembership(q, SampleStatuses)
    \/ CallbackEdit(q)
    \/ Return(q)

\* The submission in slot p is in the Enhancing state: its handler is
\* suspended at line 124 and the worker's run is not over.
Enhancing(p) == pc[p] \in PipelineAwaits /\ worker[p] = "running"

C12_BoundingResize ==
    im.passes = 1 =>
        LET w == im.input[1]
            h == im.input[2]
            longest == Max(w, h)
        IN  IF longest <= 2000
            THEN ~im.asked /\ ~im.failed /\ im.size = <<w, h>>
            ELSE /\ im.asked
                 /\ Max(im.target[1], im.target[2]) = 2000
                 /\ im.target = <<(w * 2000) \div longest, (h * 2000) \div longest>>
                 /\ ~im.failed => im.size = im.target

\* ---- C17
\* C17: a run of the pipeline that gave an output gave one with its long
\* edge at most 2000 and both edges at least 1, and a run of the pipeline on
\* that output does not fail, asks for no resize and keeps the size.  (A run
\* that ended with an exception has no output to feed back.)
C17_RoundTrip ==
    /\ [](im.passes >= 1 /\ ~im.failed =>
             /\ Max(im.size[1], im.size[2]) <= 2000
             /\ im.size[1] >= 1 /\ im.size[2] >= 1)
    /\ [][ (im.passes >= 1 /\ ~im.failed /\ im'.passes = im.passes + 1) =>
               /\ ~im'.failed
               /\ ~im'.asked
               /\ im'.size = im.size ]_vars

\* A 4000x3000 file went through the pipeline twice and is 2000x1500, and the
\* second run asked for no resize.
C17_Witness ==
    /\ im.input = <<4000, 3000>>
    /\ im.passes = 2
    /\ ~im.failed /\ ~im.asked
    /\ im.size = <<2000, 1500>>

\* ---- C20
\* C20: for an input with both edges at least 1 and its long edge above 2000,
\* the size asked of the resize has both edges at least 1, and each is within
\* one pixel of the input's edge times 2000 / max(w, h); so the resize is
\* never asked for an image without width or without height.
C20_TargetAtLeastOne ==
    (im.passes >= 1 /\ im.asked) =>
        /\ im.target[1] >= 1
        /\ im.target[2] >= 1
        /\ ~im.failed

====
